---- MODULE Spec2Model ----
(***************************************************************************)
(* A model of src/src/App.tsx: one App instance (one browser tab) of the   *)
(* P2P sync player, together with its environment: the user, the browser's *)
(* timers and media elements, and the PeerJS data connections.             *)
(*                                                                         *)
(* Units.  Media positions and timestamps are counted in quarter seconds   *)
(* (0.5 s = 2, 1.0 s = 4).  Wall-clock time is counted in steps of 150 ms  *)
(* (the 300 ms of setTimeout = 2).                                         *)
(***************************************************************************)
EXTENDS Integers, Sequences, FiniteSets, TLC

(* ------------------------------ bounds -------------------------------- *)

\* DataConnection objects created during one run (inbound and outbound).
MaxConns == 2
\* Interval-timer ids the browser hands out.
MaxTimerId == 2
\* Largest media position, in quarter seconds.
MaxPos == 5
\* setTimeout callbacks of handleSyncCommand pending at the same time.
MaxPending == 2
\* Media events queued on the Host's <video> and not yet dispatched.
MaxEvents == 2
\* Control messages in flight in one direction between the two peers.
MaxInFlight == 1
\* Longest causal chain of control messages the pair model follows.
MaxHops == 3

(* ------------------------- program constants -------------------------- *)

\* setTimeout(..., 300), in units of 150 ms.
GuardWindow == 2
\* Math.abs(v.currentTime - cmd.timestamp) > 0.5 in the Host's SEEK.
SeekThreshold == 2
\* if (drift > 0.5) addLog(`Drift: ...`)
DriftLogThreshold == 2
\* if (drift > 1)
DriftSyncThreshold == 4

(* ------------------------- JavaScript values -------------------------- *)

\* A JavaScript value as it may arrive in the timestamp field of a message.
Num(n) == [k |-> "num", n |-> n]
NaN == [k |-> "nan", n |-> 0]
Infinity == [k |-> "inf", n |-> 0]
NegInfinity == [k |-> "ninf", n |-> 0]
Undefined == [k |-> "undefined", n |-> 0]
JsNull == [k |-> "null", n |-> 0]
StrAbc == [k |-> "string", n |-> 0]
NoValue == [k |-> "none", n |-> 0]

Positions == 0..MaxPos

FiniteTimestamps == {Num(n) : n \in Positions}
NonFiniteTimestamps == {NaN, Infinity, NegInfinity, Undefined, JsNull, StrAbc}
Timestamps == FiniteTimestamps \cup NonFiniteTimestamps

\* ECMAScript ToNumber, as applied by the binary minus and by the WebIDL
\* conversion to double: null is 0, undefined and "abc" are NaN.
ToNumber(x) ==
  CASE x.k = "num" -> x
    [] x.k = "null" -> Num(0)
    [] x.k = "inf" -> Infinity
    [] x.k = "ninf" -> NegInfinity
    [] OTHER -> NaN

Abs(i) == IF i < 0 THEN -i ELSE i

\* Math.abs(p - x) for a finite position p and a JavaScript value x.
AbsDiff(p, x) ==
  LET y == ToNumber(x) IN
  CASE y.k = "num" -> Num(Abs(p - y.n))
    [] y.k \in {"inf", "ninf"} -> Infinity
    [] OTHER -> NaN

\* d > t for a JavaScript number d and a finite t: false for NaN.
GreaterThan(d, t) == d.k = "inf" \/ (d.k = "num" /\ d.n > t)

\* Whether the double the value converts to is finite: the setter of
\* HTMLMediaElement.currentTime throws a TypeError otherwise.
IsFiniteDouble(x) == ToNumber(x).k = "num"

(* ------------------------------- state -------------------------------- *)

VARIABLES
  view,               \* useState view: "LANDING", "HOST" or "CLIENT"
  isHostRef,          \* isHostRef.current
  peerRef,            \* peerRef.current is set (the Peer has been created)
  conns,              \* the DataConnection objects: conns[c].st, conns[c].on
  dataConnRef,        \* dataConnRef.current: a connection id, 0 for null
  isRemoteOp,         \* isRemoteOp.current
  guardTimeouts,      \* pending setTimeout callbacks: time left, oldest first
  heartbeatInterval,  \* heartbeatInterval.current: a timer id, 0 for null
  liveTimers,         \* the interval timers the browser still runs
  videoRef,           \* videoRef.current: the Host's <video>, or NoVideo
  remoteVideoRef,     \* remoteVideoRef.current: the Client's <video>, or NoVideo
  logs,               \* what the last handler wrote with addLog
  sent,               \* what the last handler put on a data connection
  playerEvents,       \* play/pause/seeked events queued on the Host's <video>
  flushed,            \* the console and the channels have taken logs and sent
  wireIn,             \* control messages in flight from the remote peer
  wireOut             \* control messages in flight to the remote peer

vars == <<view, isHostRef, peerRef, conns, dataConnRef, isRemoteOp, guardTimeouts,
          heartbeatInterval, liveTimers, videoRef, remoteVideoRef, logs, sent,
          flushed, playerEvents, wireIn, wireOut>>

\* What the model of a connected pair adds to the model of one instance; each
\* queued event and each message in flight carries hops, the number of control
\* messages in the causal chain from the user action behind it up to it.
pairVars == <<playerEvents, wireIn, wireOut>>

ConnIds == 1..MaxConns
TimerIds == 1..MaxTimerId

\* A <video> element: mounted or not, its currentTime and its paused flag.
NoVideo == [el |-> FALSE, pos |-> 0, paused |-> TRUE]
NewVideo == [el |-> TRUE, pos |-> 0, paused |-> TRUE]

\* A DataConnection: st is "none" (not created yet), "connecting", "open" or
\* "closed"; on tells which handlers it carries: "inbound" (those of
\* setupDataConnection and the 'open' handler of peer.on('connection')),
\* "outbound" (the 'open' handler of connectToHost alone) or "setup" (once
\* 'open' has been emitted: the data, close and error handlers of
\* setupDataConnection, on either side).
NoConn == [st |-> "none", on |-> "none"]

\* One addLog line; val carries the number formatted into it, if any.
Log(msg) == [msg |-> msg, arg |-> "", val |-> NoValue]
LogArg(msg, a) == [msg |-> msg, arg |-> a, val |-> NoValue]
LogVal(msg, v) == [msg |-> msg, arg |-> "", val |-> v]

\* The wire types and what a String(type) interpolation prints for them.
CommandTypes == {"PLAY", "PAUSE", "SEEK", "HEARTBEAT"}
InboundTypes == CommandTypes \cup {"FOO", "undefined"}

Init ==
  /\ view = "LANDING"
  /\ isHostRef = FALSE
  /\ peerRef = FALSE
  /\ conns = [c \in ConnIds |-> NoConn]
  /\ dataConnRef = 0
  /\ isRemoteOp = FALSE
  /\ guardTimeouts = <<>>
  /\ heartbeatInterval = 0
  /\ liveTimers = {}
  /\ videoRef = NoVideo
  /\ remoteVideoRef = NoVideo
  /\ logs = <<>>
  /\ sent = <<>>
  /\ flushed = TRUE
  /\ playerEvents = <<>>
  /\ wireIn = <<>>
  /\ wireOut = <<>>

(* ----------------------- heartbeat scheduler -------------------------- *)

\* window.clearInterval(id)
ClearInterval(timers, id) == timers \ {id}

\* startHeartbeat without its clearInterval.
startHeartbeatKept == liveTimers

\* The timers left after the first line of startHeartbeat.
startHeartbeatCleared ==
  IF heartbeatInterval # 0 THEN ClearInterval(liveTimers, heartbeatInterval)
                           ELSE liveTimers

\* The id window.setInterval returns: one that no live timer has.  The program
\* only tests the id for truth and hands it back to clearInterval, so which
\* unused id it is makes no difference; the model takes the smallest.
SetIntervalIds(timers) ==
  {id \in TimerIds \ timers : \A other \in TimerIds \ timers : id <= other}

\* startHeartbeat()
startHeartbeat ==
  \E id \in SetIntervalIds(startHeartbeatCleared) :
    /\ heartbeatInterval' = id
    /\ liveTimers' = startHeartbeatCleared \cup {id}

startHeartbeatLogs == <<Log("Heartbeat started")>>

\* stopHeartbeat that only forgets the id.
stopHeartbeatKept == liveTimers

\* The timers left after stopHeartbeat().
stopHeartbeatTimers ==
  IF heartbeatInterval # 0 THEN ClearInterval(liveTimers, heartbeatInterval)
                           ELSE liveTimers

stopHeartbeat ==
  /\ liveTimers' = stopHeartbeatTimers
  /\ heartbeatInterval' = 0

stopHeartbeatLogs ==
  IF heartbeatInterval # 0 THEN <<Log("Heartbeat stopped")>> ELSE <<>>

\* dataConnRef.current?.open
DataConnOpen == dataConnRef # 0 /\ conns[dataConnRef].st = "open"

\* A message as conn.send puts it on the wire of connection c.
Message(c, type, ts) == [conn |-> c, type |-> type, timestamp |-> ts]

\* The interval callback without its test of .open.
HeartbeatMessagesUnchecked ==
  IF videoRef.el /\ dataConnRef # 0
    THEN <<Message(dataConnRef, "HEARTBEAT", videoRef.pos)>>
    ELSE <<>>

\* What one run of the setInterval callback sends.
HeartbeatMessages ==
  IF videoRef.el /\ DataConnOpen
    THEN <<Message(dataConnRef, "HEARTBEAT", videoRef.pos)>>
    ELSE <<>>

\* The callback of interval timer t runs.
HeartbeatTick(t) ==
  /\ t \in liveTimers
  /\ sent' = HeartbeatMessages
  /\ logs' = <<>>
  /\ UNCHANGED <<view, isHostRef, peerRef, conns, dataConnRef, isRemoteOp,
                 guardTimeouts, heartbeatInterval, liveTimers, videoRef,
                 remoteVideoRef>>

(* ------------------------- role and the views ------------------------- *)

\* The dynamic import of peerjs resolves and new Peer() is stored.
PeerInit ==
  /\ ~peerRef
  /\ peerRef' = TRUE
  /\ logs' = <<>>
  /\ sent' = <<>>
  /\ UNCHANGED <<view, isHostRef, conns, dataConnRef, isRemoteOp, guardTimeouts,
                 heartbeatInterval, liveTimers, videoRef, remoteVideoRef>>

\* The role a click on the "Host a Party" card stores.
HostCardRole == TRUE
\* The role a click on the "Join a Stream" card stores.
ClientCardRole == FALSE

\* Click on the "Host a Party" card; the Host view mounts its <video>.
HostCardClick ==
  /\ view = "LANDING"
  /\ view' = "HOST"
  /\ isHostRef' = HostCardRole
  /\ videoRef' = NewVideo
  /\ logs' = <<>>
  /\ sent' = <<>>
  /\ UNCHANGED <<peerRef, conns, dataConnRef, isRemoteOp, guardTimeouts,
                 heartbeatInterval, liveTimers, remoteVideoRef>>

\* Click on the "Join a Stream" card; the Client view mounts its <video>.
ClientCardClick ==
  /\ view = "LANDING"
  /\ view' = "CLIENT"
  /\ isHostRef' = ClientCardRole
  /\ remoteVideoRef' = NewVideo
  /\ logs' = <<>>
  /\ sent' = <<>>
  /\ UNCHANGED <<peerRef, conns, dataConnRef, isRemoteOp, guardTimeouts,
                 heartbeatInterval, liveTimers, videoRef>>

\* The Exit button of the Host view: setView('LANDING') unmounts the <video>.
HostExit ==
  /\ view = "HOST"
  /\ view' = "LANDING"
  /\ videoRef' = NoVideo
  /\ logs' = <<>>
  /\ sent' = <<>>
  /\ UNCHANGED <<isHostRef, peerRef, conns, dataConnRef, isRemoteOp, guardTimeouts,
                 heartbeatInterval, liveTimers, remoteVideoRef>>

\* The Exit button of the Client view.
ClientExit ==
  /\ view = "CLIENT"
  /\ view' = "LANDING"
  /\ remoteVideoRef' = NoVideo
  /\ logs' = <<>>
  /\ sent' = <<>>
  /\ UNCHANGED <<isHostRef, peerRef, conns, dataConnRef, isRemoteOp, guardTimeouts,
                 heartbeatInterval, liveTimers, videoRef>>

(* ------------------------- data connections --------------------------- *)

\* The id the next DataConnection object gets: objects are numbered as created.
FreeConns == {c \in ConnIds : conns[c].st = "none" /\ \A d \in 1..(c - 1) : conns[d].st # "none"}

\* Whether setupDataConnection(conn) has registered its handlers on c: at once
\* for an inbound connection, in the 'open' handler of connectToHost otherwise.
HasHandlers(c) == conns[c].on \in {"inbound", "setup"}

\* peer.on('connection'): a remote peer connects to this one.
InboundConnection(c) ==
  /\ peerRef
  /\ c \in FreeConns
  /\ conns' = [conns EXCEPT ![c] = [st |-> "connecting", on |-> "inbound"]]
  /\ dataConnRef' = c
  /\ logs' = <<>>
  /\ sent' = <<>>
  /\ UNCHANGED <<view, isHostRef, peerRef, isRemoteOp, guardTimeouts,
                 heartbeatInterval, liveTimers, videoRef, remoteVideoRef>>

\* connectToHost with the text field holding remoteId ("" when left empty).
connectToHost(c, remoteId) ==
  /\ view = "CLIENT"
  /\ IF ~peerRef \/ remoteId = ""
       THEN /\ logs' = <<>>
            /\ UNCHANGED conns
       ELSE /\ c \in FreeConns
            /\ conns' = [conns EXCEPT ![c] = [st |-> "connecting", on |-> "outbound"]]
            /\ logs' = <<Log("Connecting to")>>
  /\ sent' = <<>>
  /\ UNCHANGED <<view, isHostRef, peerRef, dataConnRef, isRemoteOp, guardTimeouts,
                 heartbeatInterval, liveTimers, videoRef, remoteVideoRef>>

\* Whether the 'open' handler of setupDataConnection starts the heartbeat.
OpenStartsHeartbeat == isHostRef

\* What the Host's second 'open' handler (peer.on('connection')) logs: it calls
\* the client with the captured stream when a <video> is mounted.
HostOpenCallLogs(captureOk) ==
  IF videoRef.el
    THEN IF captureOk THEN <<Log("Calling client with stream (HQ)...")>>
                      ELSE <<Log("Error capturing stream")>>
    ELSE <<>>

\* conn 'open' of an inbound connection: the handler of setupDataConnection,
\* then the handler registered in peer.on('connection').
InboundOpen(c, captureOk) ==
  /\ conns[c].st = "connecting"
  /\ conns[c].on = "inbound"
  /\ conns' = [conns EXCEPT ![c] = [st |-> "open", on |-> "setup"]]
  /\ IF OpenStartsHeartbeat
       THEN /\ startHeartbeat
            /\ logs' = <<Log("DataConnection Open")>> \o startHeartbeatLogs
                          \o HostOpenCallLogs(captureOk)
       ELSE /\ logs' = <<Log("DataConnection Open")>> \o HostOpenCallLogs(captureOk)
            /\ UNCHANGED <<heartbeatInterval, liveTimers>>
  /\ sent' = <<>>
  /\ UNCHANGED <<view, isHostRef, peerRef, dataConnRef, isRemoteOp, guardTimeouts,
                 videoRef, remoteVideoRef>>

\* conn 'open' of an outbound connection: the handler of connectToHost stores
\* the connection and only then registers the handlers of setupDataConnection,
\* whose own 'open' handler therefore does not run for this event.
OutboundOpen(c) ==
  /\ conns[c].st = "connecting"
  /\ conns[c].on = "outbound"
  /\ conns' = [conns EXCEPT ![c] = [st |-> "open", on |-> "setup"]]
  /\ dataConnRef' = c
  /\ logs' = <<Log("Connected to Host. Waiting for stream...")>>
  /\ sent' = <<>>
  /\ UNCHANGED <<view, isHostRef, peerRef, isRemoteOp, guardTimeouts,
                 heartbeatInterval, liveTimers, videoRef, remoteVideoRef>>

\* conn 'close': PeerJS emits it for a connection that was open.
ConnClose(c) ==
  /\ conns[c].st = "open"
  /\ conns' = [conns EXCEPT ![c].st = "closed"]
  /\ stopHeartbeat
  /\ logs' = <<Log("Connection closed")>> \o stopHeartbeatLogs
  /\ sent' = <<>>
  /\ UNCHANGED <<view, isHostRef, peerRef, dataConnRef, isRemoteOp, guardTimeouts,
                 videoRef, remoteVideoRef>>

\* conn 'error': handled only once setupDataConnection has run on c.
ConnError(c) ==
  /\ conns[c].st \in {"connecting", "open"}
  /\ IF HasHandlers(c)
       THEN /\ stopHeartbeat
            /\ logs' = <<Log("DataConn error")>> \o stopHeartbeatLogs
       ELSE /\ logs' = <<>>
            /\ UNCHANGED <<heartbeatInterval, liveTimers>>
  /\ sent' = <<>>
  /\ UNCHANGED <<view, isHostRef, peerRef, conns, dataConnRef, isRemoteOp,
                 guardTimeouts, videoRef, remoteVideoRef>>

(* --------------------------- handleSyncCommand ------------------------ *)

\* The Host's SEEK test: Math.abs(v.currentTime - cmd.timestamp) > 0.5.
HostSeekJumps(v, ts) == GreaterThan(AbsDiff(v.pos, ts), SeekThreshold)

\* The assignment v.currentTime = ts, for a value the setter accepts.
SetCurrentTime(v, ts) == [v EXCEPT !.pos = ToNumber(ts).n]

\* The Host's switch (cmd.type) applied to its <video>.
HostSwitch(v, cmd) ==
  CASE cmd.type = "PLAY" -> [v EXCEPT !.paused = FALSE]
    [] cmd.type = "PAUSE" -> [v EXCEPT !.paused = TRUE]
    [] cmd.type = "SEEK" /\ HostSeekJumps(v, cmd.timestamp)
                        /\ IsFiniteDouble(cmd.timestamp) -> SetCurrentTime(v, cmd.timestamp)
    [] OTHER -> v

\* The switch leaves handleSyncCommand by a TypeError of the currentTime setter.
HostSwitchThrows(v, cmd) ==
  /\ cmd.type = "SEEK"
  /\ HostSeekJumps(v, cmd.timestamp)
  /\ ~IsFiniteDouble(cmd.timestamp)

\* A Host branch without its return for HEARTBEAT.
HostAppliesAll(cmd) == TRUE

\* Whether the Host branch goes on to apply cmd.
HostApplies(cmd) == cmd.type # "HEARTBEAT"

\* const drift = Math.abs(v.currentTime - cmd.timestamp)
ClientDrift(v, cmd) == AbsDiff(v.pos, cmd.timestamp)

\* The correction taken at the threshold of the drift log.
ClientCorrectsEarly(v, cmd) == GreaterThan(ClientDrift(v, cmd), DriftLogThreshold)

\* if (drift > 1)
ClientCorrects(v, cmd) == GreaterThan(ClientDrift(v, cmd), DriftSyncThreshold)

\* The Client's <video> after a HEARTBEAT.
ClientSync(v, cmd) ==
  IF ClientCorrects(v, cmd) /\ IsFiniteDouble(cmd.timestamp)
    THEN SetCurrentTime(v, cmd.timestamp)
    ELSE v

\* The drift log taken at the threshold itself (drift >= 0.5).
ClientLogsDriftInclusive(v, cmd) ==
  LET d == ClientDrift(v, cmd) IN d.k = "inf" \/ (d.k = "num" /\ d.n >= DriftLogThreshold)

\* if (drift > 0.5) addLog(`Drift: ...`)
ClientLogsDrift(v, cmd) == GreaterThan(ClientDrift(v, cmd), DriftLogThreshold)

\* What the Client logs for a HEARTBEAT.
ClientLogs(v, cmd) ==
  (IF ClientLogsDrift(v, cmd) THEN <<LogVal("Drift", ClientDrift(v, cmd))>> ELSE <<>>)
  \o (IF ClientCorrects(v, cmd)
        THEN <<LogVal("Syncing drift", ClientDrift(v, cmd))>> ELSE <<>>)

\* Whether handleSyncCommand(cmd) reaches setTimeout(..., 300).
ArmsGuard(cmd) ==
  isHostRef /\ videoRef.el /\ HostApplies(cmd) /\ ~HostSwitchThrows(videoRef, cmd)

\* handleSyncCommand(cmd), after the caller has logged `before`.
handleSyncCommand(cmd, before) ==
  IF isHostRef
    THEN IF ~videoRef.el \/ ~HostApplies(cmd)
           THEN /\ logs' = before
                /\ UNCHANGED <<videoRef, remoteVideoRef, isRemoteOp, guardTimeouts>>
           ELSE /\ isRemoteOp' = TRUE
                /\ logs' = before \o <<LogArg("Exec", cmd.type)>>
                /\ videoRef' = HostSwitch(videoRef, cmd)
                /\ guardTimeouts' = IF HostSwitchThrows(videoRef, cmd)
                                      THEN guardTimeouts
                                      ELSE Append(guardTimeouts, GuardWindow)
                /\ UNCHANGED remoteVideoRef
    ELSE IF ~remoteVideoRef.el \/ cmd.type # "HEARTBEAT"
           THEN /\ logs' = before
                /\ UNCHANGED <<videoRef, remoteVideoRef, isRemoteOp, guardTimeouts>>
           ELSE /\ remoteVideoRef' = ClientSync(remoteVideoRef, cmd)
                /\ logs' = before \o ClientLogs(remoteVideoRef, cmd)
                /\ UNCHANGED <<videoRef, isRemoteOp, guardTimeouts>>

\* The inbound messages the model delivers: every timestamp for the two types
\* whose handling reads it, a finite and two non-finite ones for the others.
InboundCommands ==
  [type : {"SEEK", "HEARTBEAT"}, timestamp : Timestamps]
    \cup [type : InboundTypes \ {"SEEK", "HEARTBEAT"}, timestamp : {Num(0), NaN, JsNull}]

\* The inbound messages delivered during a whole session: every type; a far
\* timestamp, an infinite one and null for the two types whose handling reads
\* it, one timestamp for the others.
SessionCommands ==
  [type : {"SEEK", "HEARTBEAT"}, timestamp : {Num(MaxPos), Infinity, JsNull}]
    \cup [type : InboundTypes \ {"SEEK", "HEARTBEAT"}, timestamp : {Num(MaxPos)}]

\* A data handler that also sends what it has received back on the connection.
ConnDataEchoes(c, cmd) ==
  /\ conns[c].st = "open"
  /\ ArmsGuard(cmd) => Len(guardTimeouts) < MaxPending
  /\ handleSyncCommand(cmd, IF cmd.type # "HEARTBEAT"
                              THEN <<LogArg("Received", cmd.type)>> ELSE <<>>)
  /\ sent' = <<Message(c, cmd.type, cmd.timestamp)>>
  /\ UNCHANGED <<view, isHostRef, peerRef, conns, dataConnRef, heartbeatInterval,
                 liveTimers>>

\* conn 'data' on a connection set up by setupDataConnection.
ConnData(c, cmd) ==
  /\ conns[c].st = "open"
  /\ ArmsGuard(cmd) => Len(guardTimeouts) < MaxPending
  /\ handleSyncCommand(cmd, IF cmd.type # "HEARTBEAT"
                              THEN <<LogArg("Received", cmd.type)>> ELSE <<>>)
  /\ sent' = <<>>
  /\ UNCHANGED <<view, isHostRef, peerRef, conns, dataConnRef, heartbeatInterval,
                 liveTimers>>

\* The callback of the oldest setTimeout runs once its 300 ms are over.
GuardTimeout ==
  /\ guardTimeouts # <<>>
  /\ Head(guardTimeouts) = 0
  /\ isRemoteOp' = FALSE
  /\ guardTimeouts' = Tail(guardTimeouts)
  /\ logs' = <<>>
  /\ sent' = <<>>
  /\ UNCHANGED <<view, isHostRef, peerRef, conns, dataConnRef, heartbeatInterval,
                 liveTimers, videoRef, remoteVideoRef>>

\* 150 ms pass; a callback that is due runs before more time passes.
Tick ==
  /\ guardTimeouts # <<>>
  /\ \A i \in 1..Len(guardTimeouts) : guardTimeouts[i] > 0
  /\ guardTimeouts' = [i \in 1..Len(guardTimeouts) |-> guardTimeouts[i] - 1]
  /\ logs' = <<>>
  /\ sent' = <<>>
  /\ UNCHANGED <<view, isHostRef, peerRef, conns, dataConnRef, isRemoteOp,
                 heartbeatInterval, liveTimers, videoRef, remoteVideoRef>>

(* ------------------------------ sendCommand --------------------------- *)

\* sendCommand's condition without the loop guard.
CanSendUnguarded == dataConnRef # 0 /\ conns[dataConnRef].st = "open"

\* The condition of sendCommand's if.
CanSend == dataConnRef # 0 /\ conns[dataConnRef].st = "open" /\ ~isRemoteOp

sendCommandMessages(type, ts) ==
  IF CanSend THEN <<Message(dataConnRef, type, ts)>> ELSE <<>>

\* The else branch's if / else if / else if.
sendCommandFailLogs ==
  CASE dataConnRef = 0 -> <<Log("Send Fail: No Conn")>>
    [] conns[dataConnRef].st # "open" -> <<Log("Send Fail: Conn Closed")>>
    [] isRemoteOp -> <<Log("Send Skip: RemoteOp")>>
    [] OTHER -> <<>>

sendCommandLogs(type) ==
  IF CanSend THEN <<LogArg("Sending", type)>> ELSE sendCommandFailLogs

sendCommand(type, ts) ==
  /\ sent' = sendCommandMessages(type, ts)
  /\ logs' = sendCommandLogs(type)
  /\ UNCHANGED <<view, isHostRef, peerRef, conns, dataConnRef, isRemoteOp,
                 guardTimeouts, heartbeatInterval, liveTimers, videoRef,
                 remoteVideoRef>>

\* The Host <video>'s play, pause and seeked events.
onPlay == videoRef.el /\ sendCommand("PLAY", videoRef.pos)
onPause == videoRef.el /\ sendCommand("PAUSE", videoRef.pos)
onSeeked == videoRef.el /\ sendCommand("SEEK", videoRef.pos)

\* The Client view's Play and Pause buttons.
ClientPlayClick == view = "CLIENT" /\ sendCommand("PLAY", 0)
ClientPauseClick == view = "CLIENT" /\ sendCommand("PAUSE", 0)

(* -------------------- file selection and media repair ----------------- *)

\* A file selection that toggles the role.
FileRoleToggled == ~isHostRef

\* The role handleFileChange stores for an accepted file.
FileRole == TRUE

\* "If already connected, call the peer now".
LateLoad == dataConnRef # 0 /\ conns[dataConnRef].st = "open" /\ peerRef

\* handleFileChange: file is "none" (dialog cancelled), "other" (not MP4) or
\* "mp4"; captureOk tells whether captureStream() and peer.call() succeed.
handleFileChange(file, captureOk) ==
  /\ view = "HOST"
  /\ CASE file = "none" ->
            /\ logs' = <<>>
            /\ UNCHANGED <<isHostRef, videoRef, heartbeatInterval, liveTimers>>
       [] file = "other" ->
            /\ logs' = <<Log("Error: Non-MP4 file selected")>>
            /\ UNCHANGED <<isHostRef, videoRef, heartbeatInterval, liveTimers>>
       [] file = "mp4" /\ ~videoRef.el ->
            /\ logs' = <<>>
            /\ UNCHANGED <<isHostRef, videoRef, heartbeatInterval, liveTimers>>
       [] file = "mp4" /\ videoRef.el ->
            /\ videoRef' = NewVideo
            /\ isHostRef' = FileRole
            /\ IF LateLoad
                 THEN IF captureOk
                        THEN /\ startHeartbeat
                             /\ logs' = <<Log("Late video load: Calling existing client (HQ)...")>>
                                          \o startHeartbeatLogs
                        ELSE /\ logs' = <<Log("Late video load: Calling existing client (HQ)..."),
                                           Log("Error capturing stream")>>
                             /\ UNCHANGED <<heartbeatInterval, liveTimers>>
                 ELSE /\ logs' = <<>>
                      /\ UNCHANGED <<heartbeatInterval, liveTimers>>
  /\ sent' = <<>>
  /\ UNCHANGED <<view, peerRef, conns, dataConnRef, isRemoteOp, guardTimeouts,
                 remoteVideoRef>>

\* A restartStream that, like the late video load, restarts the heartbeat
\* after a successful call.
restartStreamWithHeartbeat(captureOk) ==
  /\ view = "HOST"
  /\ IF isHostRef /\ peerRef /\ dataConnRef # 0 /\ videoRef.el
       THEN IF captureOk
              THEN /\ startHeartbeat
                   /\ logs' = <<Log("Restarting stream (HQ)..."), Log("Captured stream")>>
                                \o startHeartbeatLogs
              ELSE /\ logs' = <<Log("Restarting stream (HQ)..."), Log("Error restarting")>>
                   /\ UNCHANGED <<heartbeatInterval, liveTimers>>
       ELSE /\ logs' = <<>>
            /\ UNCHANGED <<heartbeatInterval, liveTimers>>
  /\ sent' = <<>>
  /\ UNCHANGED <<view, isHostRef, peerRef, conns, dataConnRef, isRemoteOp,
                 guardTimeouts, videoRef, remoteVideoRef>>

\* restartStream ("Fix Black Screen"): a new media call, no field is written.
restartStream(captureOk) ==
  /\ view = "HOST"
  /\ logs' = IF isHostRef /\ peerRef /\ dataConnRef # 0 /\ videoRef.el
               THEN IF captureOk
                      THEN <<Log("Restarting stream (HQ)..."), Log("Captured stream")>>
                      ELSE <<Log("Restarting stream (HQ)..."), Log("Error restarting")>>
               ELSE <<>>
  /\ sent' = <<>>
  /\ UNCHANGED <<view, isHostRef, peerRef, conns, dataConnRef, isRemoteOp,
                 guardTimeouts, heartbeatInterval, liveTimers, videoRef,
                 remoteVideoRef>>

\* call 'stream' at the Client: the stream is attached and played.
RemoteStream(playOk) ==
  /\ peerRef
  /\ remoteVideoRef' = IF remoteVideoRef.el
                         THEN [el |-> TRUE, pos |-> 0, paused |-> ~playOk]
                         ELSE remoteVideoRef
  /\ logs' = <<Log("Received remote stream")>>
               \o (IF remoteVideoRef.el /\ ~playOk THEN <<Log("Auto-play failed")>> ELSE <<>>)
  /\ sent' = <<>>
  /\ UNCHANGED <<view, isHostRef, peerRef, conns, dataConnRef, isRemoteOp,
                 guardTimeouts, heartbeatInterval, liveTimers, videoRef>>

(* ------------------- the user and the media elements ------------------ *)

\* The positions the user seeks to and playback reaches during a whole
\* session: the start and a far one.
SessionPositions == {0, MaxPos}

\* The user works the native controls of the Host's <video>.
UserControls(v) ==
  /\ videoRef.el
  /\ v.el
  /\ v # videoRef
  /\ videoRef' = v
  /\ logs' = <<>>
  /\ sent' = <<>>
  /\ UNCHANGED <<view, isHostRef, peerRef, conns, dataConnRef, isRemoteOp,
                 guardTimeouts, heartbeatInterval, liveTimers, remoteVideoRef>>

\* The Client's <video> plays on: its position advances to p.
RemotePlayback(p) ==
  /\ remoteVideoRef.el
  /\ ~remoteVideoRef.paused
  /\ remoteVideoRef.pos < p
  /\ remoteVideoRef' = [remoteVideoRef EXCEPT !.pos = p]
  /\ logs' = <<>>
  /\ sent' = <<>>
  /\ UNCHANGED <<view, isHostRef, peerRef, conns, dataConnRef, isRemoteOp,
                 guardTimeouts, heartbeatInterval, liveTimers, videoRef>>

(* --------------------------- specification ---------------------------- *)

\* The output of the handler that ran last has been taken: console.log and
\* conn.send hand it over before the next event is dispatched.
Quiet == flushed

\* The event loop runs one handler to completion; what it wrote with addLog
\* and conn.send, possibly nothing, is then there to be taken.
Dispatch == Quiet /\ flushed' = FALSE

\* The console and the data connection take what the last handler wrote.
Drain ==
  /\ ~Quiet
  /\ flushed' = TRUE
  /\ logs' = <<>>
  /\ sent' = <<>>
  /\ UNCHANGED <<view, isHostRef, peerRef, conns, dataConnRef, isRemoteOp,
                 guardTimeouts, heartbeatInterval, liveTimers, videoRef,
                 remoteVideoRef, playerEvents, wireIn, wireOut>>

Next ==
  \/ Dispatch /\ PeerInit /\ UNCHANGED pairVars
  \/ Dispatch /\ HostCardClick /\ UNCHANGED pairVars
  \/ Dispatch /\ ClientCardClick /\ UNCHANGED pairVars
  \/ Dispatch /\ HostExit /\ UNCHANGED pairVars
  \/ Dispatch /\ ClientExit /\ UNCHANGED pairVars
  \/ Dispatch /\ \E c \in ConnIds : InboundConnection(c) /\ UNCHANGED pairVars
  \/ Dispatch /\ \E c \in ConnIds, remoteId \in {"", "host"} : connectToHost(c, remoteId) /\ UNCHANGED pairVars
  \/ Dispatch /\ \E c \in ConnIds, captureOk \in BOOLEAN : InboundOpen(c, captureOk) /\ UNCHANGED pairVars
  \/ Dispatch /\ \E c \in ConnIds : OutboundOpen(c) /\ UNCHANGED pairVars
  \/ Dispatch /\ \E c \in ConnIds : ConnClose(c) /\ UNCHANGED pairVars
  \/ Dispatch /\ \E c \in ConnIds : ConnError(c) /\ UNCHANGED pairVars
  \/ Dispatch /\ \E t \in TimerIds : HeartbeatTick(t) /\ UNCHANGED pairVars
  \/ Dispatch /\ \E c \in ConnIds, cmd \in SessionCommands : ConnData(c, cmd) /\ UNCHANGED pairVars
  \/ Dispatch /\ GuardTimeout /\ UNCHANGED pairVars
  \/ Dispatch /\ Tick /\ UNCHANGED pairVars
  \/ Dispatch /\ onPlay /\ UNCHANGED pairVars
  \/ Dispatch /\ onPause /\ UNCHANGED pairVars
  \/ Dispatch /\ onSeeked /\ UNCHANGED pairVars
  \/ Dispatch /\ ClientPlayClick /\ UNCHANGED pairVars
  \/ Dispatch /\ ClientPauseClick /\ UNCHANGED pairVars
  \/ Dispatch /\ \E file \in {"none", "other", "mp4"}, captureOk \in BOOLEAN : handleFileChange(file, captureOk) /\ UNCHANGED pairVars
  \/ Dispatch /\ \E captureOk \in BOOLEAN : restartStream(captureOk) /\ UNCHANGED pairVars
  \/ Dispatch /\ \E playOk \in BOOLEAN : RemoteStream(playOk) /\ UNCHANGED pairVars
  \/ Dispatch /\ \E v \in [el : {TRUE}, pos : SessionPositions, paused : BOOLEAN] : UserControls(v) /\ UNCHANGED pairVars
  \/ Dispatch /\ \E p \in SessionPositions : RemotePlayback(p) /\ UNCHANGED pairVars
  \/ Drain

Spec == Init /\ [][Next]_vars

\* A peer in mid-session, as Spec reaches it: a Host with an open inbound
\* channel and a running heartbeat, its <video> at any position, or a Client
\* with an open outbound channel whose <video> plays the stream at any position.
InitSync ==
  /\ view \in {"HOST", "CLIENT"}
  /\ isHostRef = (view = "HOST")
  /\ peerRef = TRUE
  /\ conns = [c \in ConnIds |->
               IF c = 1 THEN [st |-> "open", on |-> "setup"] ELSE NoConn]
  /\ dataConnRef = 1
  /\ isRemoteOp = FALSE
  /\ guardTimeouts = <<>>
  /\ heartbeatInterval = (IF view = "HOST" THEN 1 ELSE 0)
  /\ liveTimers = (IF view = "HOST" THEN {1} ELSE {})
  /\ videoRef \in (IF view = "HOST"
                     THEN [el : {TRUE}, pos : Positions, paused : BOOLEAN]
                     ELSE {NoVideo})
  /\ remoteVideoRef \in (IF view = "CLIENT"
                           THEN [el : {TRUE}, pos : Positions, paused : {FALSE}]
                           ELSE {NoVideo})
  /\ logs = <<>>
  /\ sent = <<>>
  /\ flushed = TRUE
  /\ playerEvents = <<>>
  /\ wireIn = <<>>
  /\ wireOut = <<>>

\* The handling of inbound commands by such a peer, every message delivered.
NextSync ==
  \/ Dispatch /\ \E c \in ConnIds, cmd \in InboundCommands : ConnData(c, cmd) /\ UNCHANGED pairVars
  \/ Dispatch /\ GuardTimeout /\ UNCHANGED pairVars
  \/ Dispatch /\ Tick /\ UNCHANGED pairVars
  \/ Drain

SpecSync == InitSync /\ [][NextSync]_vars

(* --------------------------- a connected pair ------------------------- *)

\* The events the Host's <video> queues for onPlay, onPause and onSeeked when
\* its state goes from old to new: 'play' when playback starts, 'pause' when it
\* stops, 'seeked' after a change of currentTime.
MediaEvents(old, new, hops) ==
  (IF old.paused /\ ~new.paused THEN <<[type |-> "play", hops |-> hops]>> ELSE <<>>)
  \o (IF ~old.paused /\ new.paused THEN <<[type |-> "pause", hops |-> hops]>> ELSE <<>>)
  \o (IF old.pos # new.pos THEN <<[type |-> "seeked", hops |-> hops]>> ELSE <<>>)

\* The messages conn.send has just put on the connection, as they travel.
OnWire(msgs, hops) == [i \in 1..Len(msgs) |-> [type |-> msgs[i].type, hops |-> hops]]

\* The user works the controls of the Host's <video>; the element queues the
\* events of the change.
PairUserControls(v) ==
  /\ UserControls(v)
  /\ Len(playerEvents) + Len(MediaEvents(videoRef, v, 0)) <= MaxEvents
  /\ playerEvents' = playerEvents \o MediaEvents(videoRef, v, 0)
  /\ UNCHANGED <<wireIn, wireOut>>

\* The oldest queued event is dispatched to its handler; what the handler sends
\* goes on the wire.
PairDispatch ==
  /\ playerEvents # <<>>
  /\ Len(wireOut) < MaxInFlight
  /\ Head(playerEvents).hops < MaxHops
  /\ CASE Head(playerEvents).type = "play" -> onPlay
       [] Head(playerEvents).type = "pause" -> onPause
       [] OTHER -> onSeeked
  /\ playerEvents' = Tail(playerEvents)
  /\ wireOut' = wireOut \o OnWire(sent', Head(playerEvents).hops + 1)
  /\ UNCHANGED wireIn

\* The oldest message in flight from the remote peer is delivered to the data
\* handler; a Host's <video> queues the events of what the handler did to it
\* (the Client's <video> has no listeners).
PairDeliver ==
  /\ wireIn # <<>>
  /\ Head(wireIn).hops < MaxHops
  /\ ConnData(dataConnRef, [type |-> Head(wireIn).type, timestamp |-> Num(0)])
  /\ Len(playerEvents) + Len(MediaEvents(videoRef, videoRef', Head(wireIn).hops)) <= MaxEvents
  /\ Len(wireOut) + Len(sent') <= MaxInFlight
  /\ playerEvents' = playerEvents \o MediaEvents(videoRef, videoRef', Head(wireIn).hops)
  /\ wireOut' = wireOut \o OnWire(sent', Head(wireIn).hops + 1)
  /\ wireIn' = Tail(wireIn)

\* The user presses Play or Pause in the Client view.
PairClientClick ==
  /\ Len(wireOut) < MaxInFlight
  /\ ClientPlayClick \/ ClientPauseClick
  /\ wireOut' = wireOut \o OnWire(sent', 1)
  /\ UNCHANGED <<playerEvents, wireIn>>

\* What the remote peer's own user can make it send: a Client's buttons send
\* PLAY and PAUSE, a Host's player events PLAY, PAUSE and SEEK.
RemoteUserTypes == IF isHostRef THEN {"PLAY", "PAUSE"} ELSE {"PLAY", "PAUSE", "SEEK"}

\* The remote peer's user acts and the remote peer sends.
RemoteUserAction(type) ==
  /\ type \in RemoteUserTypes
  /\ Len(wireIn) < MaxInFlight
  /\ wireIn' = Append(wireIn, [type |-> type, hops |-> 1])
  /\ logs' = <<>>
  /\ sent' = <<>>
  /\ UNCHANGED <<view, isHostRef, peerRef, conns, dataConnRef, isRemoteOp,
                 guardTimeouts, heartbeatInterval, liveTimers, videoRef,
                 remoteVideoRef, playerEvents, wireOut>>

\* What a remote Client may send on receiving m: its branch of
\* handleSyncCommand sends nothing and its <video> has no listeners.
RemoteClientReplies(m) == {<<>>}

\* What a remote Host may send on receiving m: nothing, or, when the event of
\* the apply is dispatched with the loop guard off, the same command again.
RemoteHostReplies(m) ==
  IF m.type \in {"PLAY", "PAUSE", "SEEK"}
    THEN {<<>>, <<[type |-> m.type, hops |-> m.hops + 1]>>}
    ELSE {<<>>}

\* The oldest message in flight to the remote peer arrives there.
RemoteReceive ==
  /\ wireOut # <<>>
  /\ \E reply \in (IF isHostRef THEN RemoteClientReplies(Head(wireOut))
                                ELSE RemoteHostReplies(Head(wireOut))) :
       /\ Len(wireIn) + Len(reply) <= MaxInFlight
       /\ \A i \in 1..Len(reply) : reply[i].hops <= MaxHops
       /\ wireIn' = wireIn \o reply
  /\ wireOut' = Tail(wireOut)
  /\ logs' = <<>>
  /\ sent' = <<>>
  /\ UNCHANGED <<view, isHostRef, peerRef, conns, dataConnRef, isRemoteOp,
                 guardTimeouts, heartbeatInterval, liveTimers, videoRef,
                 remoteVideoRef, playerEvents>>

\* A connected Host-Client pair seen from one of its two instances, the
\* <video> at the start, nothing queued and nothing in flight.
InitPair ==
  /\ InitSync
  /\ videoRef.pos = 0
  /\ remoteVideoRef.pos = 0

NextPair ==
  \/ Dispatch /\ \E v \in [el : {TRUE}, pos : SessionPositions, paused : BOOLEAN] : PairUserControls(v)
  \/ Dispatch /\ PairDispatch
  \/ Dispatch /\ PairDeliver
  \/ Dispatch /\ PairClientClick
  \/ Dispatch /\ \E type \in {"PLAY", "PAUSE", "SEEK"} : RemoteUserAction(type)
  \/ Dispatch /\ RemoteReceive
  \/ Dispatch /\ GuardTimeout /\ UNCHANGED pairVars
  \/ Dispatch /\ Tick /\ UNCHANGED pairVars
  \/ Drain

SpecPair == InitPair /\ [][NextPair]_vars

TypeOK ==
  /\ view \in {"LANDING", "HOST", "CLIENT"}
  /\ flushed \in BOOLEAN
  /\ flushed => logs = <<>> /\ sent = <<>>
  /\ isHostRef \in BOOLEAN
  /\ dataConnRef \in 0..MaxConns
  /\ heartbeatInterval \in 0..MaxTimerId
  /\ liveTimers \subseteq TimerIds
  /\ Len(guardTimeouts) <= MaxPending
  /\ videoRef.pos \in Positions
  /\ remoteVideoRef.pos \in Positions

(* ------------------------------- claims ------------------------------- *)

\* The Role of the specification: the view the user has chosen.
Role ==
  CASE view = "HOST" -> "Host"
    [] view = "CLIENT" -> "Client"
    [] OTHER -> "Unassigned"

\* The fields of the program, without what the last step logged and sent.
fields == <<view, isHostRef, peerRef, conns, dataConnRef, isRemoteOp, guardTimeouts,
            heartbeatInterval, liveTimers, videoRef, remoteVideoRef>>

\* A local player event of the Host's <video> is dispatched.
LocalPlayerEvent == onPlay \/ onPause \/ onSeeked

\* A step that runs sendCommand.
SendCommandStep == LocalPlayerEvent \/ ClientPlayClick \/ ClientPauseClick

\* C1: a Client that handles HEARTBEAT{r} at position p moves to r when
\* |p - r| > 1.0 s (4 quarter seconds), keeps p when |p - r| <= 1.0 s, and
\* changes no field and logs nothing when |p - r| < 0.5 s (2 quarter seconds).
C1_DriftCorrection ==
  [][(~isHostRef /\ remoteVideoRef.el) =>
       \A c \in ConnIds, r \in Positions :
         ConnData(c, [type |-> "HEARTBEAT", timestamp |-> Num(r)]) =>
           LET p == remoteVideoRef.pos IN
             /\ Abs(p - r) > 4 => remoteVideoRef' = [remoteVideoRef EXCEPT !.pos = r]
             /\ Abs(p - r) <= 4 => remoteVideoRef' = remoteVideoRef
             /\ Abs(p - r) < 2 => (fields' = fields /\ logs' = <<>>)
             /\ UNCHANGED <<view, isHostRef, peerRef, conns, dataConnRef, isRemoteOp,
                            guardTimeouts, heartbeatInterval, liveTimers, videoRef>>]_vars

\* A Client has just corrected a drift of 1.25 s, from position 0 to 1.25 s.
C1_Witness ==
  /\ ~isHostRef
  /\ remoteVideoRef.el
  /\ remoteVideoRef.pos = 5
  /\ logs = <<LogVal("Drift", Num(5)), LogVal("Syncing drift", Num(5))>>

\* C2: at a Host, a local player event fired less than 300 ms after a remote
\* PLAY/PAUSE/SEEK was applied (the timeout of that apply still has time left)
\* sends nothing, also when an earlier apply's timeout was pending at the apply.
C2_LoopGuardWindow ==
  [][(/\ isHostRef
      /\ \E i \in 1..Len(guardTimeouts) : guardTimeouts[i] > 0
      /\ LocalPlayerEvent)
     => sent' = <<>>]_vars

\* C3: whenever the role is Client no heartbeat timer is live.
C3_NoHeartbeatAtClient == Role = "Client" => liveTimers = {}

\* C4: at most one interval timer is live, and it is the one the program
\* holds in heartbeatInterval, after any sequence of start triggers.
C4_SingleTimer ==
  /\ Cardinality(liveTimers) <= 1
  /\ liveTimers # {} => liveTimers = {heartbeatInterval}

\* A late video load on an open channel has just (re)started the heartbeat.
C4_Witness ==
  /\ Len(logs) = 2
  /\ logs[1] = Log("Late video load: Calling existing client (HQ)...")
  /\ logs[2] = Log("Heartbeat started")
  /\ Cardinality(liveTimers) = 1

\* C5: a close or error of the control channel leaves no timer live and sends
\* nothing; a timer becomes live again only by a start of the heartbeat, and a
\* HEARTBEAT is sent only by a step taken while a timer is live.
C5_CloseStopsHeartbeat ==
  [][/\ (\E c \in ConnIds : c = dataConnRef /\ (ConnClose(c) \/ ConnError(c)))
          => (liveTimers' = {} /\ heartbeatInterval' = 0 /\ sent' = <<>>)
     /\ (liveTimers = {} /\ liveTimers' # {})
          => \E i \in 1..Len(logs') : logs'[i] = Log("Heartbeat started")
     /\ (\E i \in 1..Len(sent') : sent'[i].type = "HEARTBEAT")
          => liveTimers # {}]_vars

\* The control channel has just closed under a running heartbeat.
C5_Witness ==
  /\ logs = <<Log("Connection closed"), Log("Heartbeat stopped")>>
  /\ dataConnRef # 0
  /\ conns[dataConnRef].st = "closed"
  /\ liveTimers = {}

C7_NonFiniteTimestamp ==
  [][\A c \in ConnIds, cmd \in InboundCommands :
       (cmd.timestamp \in NonFiniteTimestamps /\ ConnData(c, cmd))
       => (videoRef'.pos = videoRef.pos /\ remoteVideoRef'.pos = remoteVideoRef.pos)]_vars

\* A message with a missing or unknown type or a non-finite timestamp.
Malformed(cmd) ==
  cmd.type \notin CommandTypes \/ cmd.timestamp \in NonFiniteTimestamps

\* C8: a malformed inbound message is dropped: it changes no field of the
\* program, so it drives no player and does not activate the loop guard.
C8_MalformedDropped ==
  [][\A c \in ConnIds, cmd \in InboundCommands :
       (Malformed(cmd) /\ ConnData(c, cmd)) => fields' = fields]_vars

\* C9: sendCommand sends one message on the current connection exactly when a
\* connection exists, is open and the loop guard is inactive; otherwise it
\* changes no field, sends nothing and logs the first reason that applies.
C9_SendCommand ==
  [][SendCommandStep =>
       LET exists == dataConnRef # 0
           open == exists /\ conns[dataConnRef].st = "open"
       IN  /\ fields' = fields
           /\ (sent' # <<>>) <=> (open /\ ~isRemoteOp)
           /\ sent' # <<>> => (Len(sent') = 1 /\ sent'[1].conn = dataConnRef)
           /\ sent' = <<>> =>
                 logs' = <<Log(CASE ~exists -> "Send Fail: No Conn"
                                 [] exists /\ ~open -> "Send Fail: Conn Closed"
                                 [] OTHER -> "Send Skip: RemoteOp")>>]_vars

\* A send has just been skipped because the loop guard is active.
C9_Witness ==
  /\ logs = <<Log("Send Skip: RemoteOp")>>
  /\ isRemoteOp
  /\ dataConnRef # 0
  /\ conns[dataConnRef].st = "open"

\* C10: a tick sends at most one message, a HEARTBEAT with the position of the
\* Host's <video> on the current connection, and only if that connection is
\* open; a tick changes no field, so nothing is kept for later.
C10_HeartbeatTick ==
  [][\A t \in TimerIds :
       HeartbeatTick(t) =>
         /\ fields' = fields
         /\ Len(sent') <= 1
         /\ sent' # <<>> =>
               /\ videoRef.el
               /\ dataConnRef # 0
               /\ conns[dataConnRef].st = "open"
               /\ sent'[1] = [conn |-> dataConnRef, type |-> "HEARTBEAT",
                              timestamp |-> videoRef.pos]]_vars

\* A tick has just sent the Host's position, 1.25 s, on the open channel.
C10_Witness ==
  /\ sent = <<[conn |-> dataConnRef, type |-> "HEARTBEAT", timestamp |-> 5]>>
  /\ videoRef.el
  /\ videoRef.pos = 5
  /\ dataConnRef # 0
  /\ conns[dataConnRef].st = "open"
  /\ liveTimers # {}

\* C11: the loop guard always deactivates: the flag is set only while a
\* setTimeout that resets it is pending, so that once the 300 ms after the last
\* remote apply are over the guard is inactive and local events are sent; in
\* no state does the guard stay active with nothing left to reset it.
C11_GuardDeactivates == isRemoteOp => guardTimeouts # <<>>

\* C12 as stated: a Client that handles HEARTBEAT{r} at position p logs the
\* drift d = |p - r|, without correcting, for every d with 0.5 s <= d <= 1.0 s
\* (2..4 quarter seconds, both bounds included), and logs nothing for d < 0.5 s.
C12_DriftLogClosed ==
  [][(Dispatch /\ ~isHostRef /\ remoteVideoRef.el) =>
       \A c \in ConnIds, r \in Positions :
         ConnData(c, [type |-> "HEARTBEAT", timestamp |-> Num(r)]) =>
           LET d == Abs(remoteVideoRef.pos - r) IN
             /\ (2 <= d /\ d <= 4) => /\ logs' = <<LogVal("Drift", Num(d))>>
                                      /\ remoteVideoRef' = remoteVideoRef
             /\ d < 2 => logs' = <<>>]_vars

\* C12 amended: the drift is logged, without correcting, for every d with
\* 0.5 s < d <= 1.0 s (the lower bound excluded), and nothing is logged for
\* d <= 0.5 s.
C12_DriftLog ==
  [][(Dispatch /\ ~isHostRef /\ remoteVideoRef.el) =>
       \A c \in ConnIds, r \in Positions :
         ConnData(c, [type |-> "HEARTBEAT", timestamp |-> Num(r)]) =>
           LET d == Abs(remoteVideoRef.pos - r) IN
             /\ (2 < d /\ d <= 4) => /\ logs' = <<LogVal("Drift", Num(d))>>
                                     /\ remoteVideoRef' = remoteVideoRef
             /\ d <= 2 => logs' = <<>>]_vars

\* A Client has just logged a drift of 1.0 s and kept its position.
C12_Witness ==
  /\ ~isHostRef
  /\ remoteVideoRef.el
  /\ remoteVideoRef.pos \in {0, 1}
  /\ logs = <<LogVal("Drift", Num(4))>>

\* C13: Exit dismantles the active session first: right after an Exit button
\* has brought the user back to the role selection screen, no control channel
\* of this process is open and no heartbeat timer is live.
C13_ExitDismantles ==
  [][(HostExit \/ ClientExit) =>
       /\ view' = "LANDING"
       /\ \A c \in ConnIds : conns'[c].st # "open"
       /\ liveTimers' = {}]_vars

\* The control channels that are open and carry the handlers of
\* setupDataConnection: their data is handled by handleSyncCommand, their open
\* can start and their close or error stops the heartbeat.
ActiveSessions == {c \in ConnIds : conns[c].st = "open" /\ HasHandlers(c)}

\* C14: at most one ConnectionSession is active: in every reachable state at
\* most one open control channel delivers into this process, also after a
\* second inbound connection or a repeated connect.
C14_SingleSession == Cardinality(ActiveSessions) <= 1

\* C15: restartStream, whether it succeeds, fails in capture or is a no-op,
\* leaves the heartbeat timer, the loop guard, the role and the control
\* channel (every field of the program) as they were and sends nothing; what
\* it reports depends on those fields only, so any number of invocations in a
\* row leaves the state one invocation leaves.
C15_RestartStreamFrame ==
  [][\A captureOk \in BOOLEAN :
       restartStream(captureOk) =>
         /\ fields' = fields
         /\ sent' = <<>>
         /\ logs' \in {<<>>,
                       <<Log("Restarting stream (HQ)..."), Log("Captured stream")>>,
                       <<Log("Restarting stream (HQ)..."), Log("Error restarting")>>}]_vars

\* The stream has just been restarted while the heartbeat runs and the loop
\* guard is active.
C15_Witness ==
  /\ logs = <<Log("Restarting stream (HQ)..."), Log("Captured stream")>>
  /\ liveTimers # {}
  /\ isRemoteOp
  /\ guardTimeouts # <<>>
  /\ dataConnRef # 0
  /\ conns[dataConnRef].st = "open"

\* C16: at a Host whose current control channel is open, a live heartbeat
\* timer stays live through every step except a close or an error of that
\* current channel; in particular the close or error of another, superseded
\* connection does not stop it.
C16_HeartbeatStaysLive ==
  [][(/\ view = "HOST"
      /\ isHostRef
      /\ DataConnOpen
      /\ liveTimers # {}
      /\ liveTimers' = {})
     => (ConnClose(dataConnRef) \/ ConnError(dataConnRef))]_vars

\* C18: a Client whose channel to the Host is open while the Host's heartbeat
\* timer is live keeps getting heartbeats: every tick at the Host sends a
\* HEARTBEAT on every open control channel (a tick changes no field, so a tick
\* that sends none on a channel is followed only by ticks that send none on it
\* until something else happens); and a Client that handles HEARTBEAT{r} at
\* position p ends within 1.0 s of r, at a position that depends on p and r
\* alone, with nothing else changed for a later heartbeat to depend on.
C18_SelfHealing ==
  [][/\ \A t \in TimerIds, c \in ConnIds :
          (Dispatch /\ view = "HOST" /\ isHostRef /\ conns[c].st = "open" /\ HeartbeatTick(t))
            => \E i \in 1..Len(sent') : sent'[i].conn = c /\ sent'[i].type = "HEARTBEAT"
     /\ (Dispatch /\ ~isHostRef /\ remoteVideoRef.el) =>
          \A c \in ConnIds, r \in Positions :
            ConnData(c, [type |-> "HEARTBEAT", timestamp |-> Num(r)]) =>
              LET p == remoteVideoRef.pos IN
                /\ Abs(remoteVideoRef'.pos - r) <= 4
                /\ remoteVideoRef'.pos = (IF Abs(p - r) > 4 THEN r ELSE p)
                /\ UNCHANGED <<view, isHostRef, peerRef, conns, dataConnRef, isRemoteOp,
                               guardTimeouts, heartbeatInterval, liveTimers, videoRef>>]_vars

\* C19: a Host that receives a HEARTBEAT, whatever its timestamp, ignores it:
\* player position, play/pause state, loop guard, heartbeat timer and
\* connection state are unchanged, nothing is sent and nothing is logged.
C19_HostIgnoresHeartbeat ==
  [][isHostRef =>
       \A c \in ConnIds, ts \in Timestamps :
         ConnData(c, [type |-> "HEARTBEAT", timestamp |-> ts]) =>
           /\ fields' = fields
           /\ sent' = <<>>
           /\ logs' = <<>>]_vars

\* A Host inside its guard window, its <video> playing away from the start,
\* with nothing logged or sent by the last step: the state a HEARTBEAT
\* delivered during the window leaves as it found it.
C19_Witness ==
  /\ view = "HOST"
  /\ isHostRef
  /\ videoRef.el
  /\ videoRef.pos > 0
  /\ ~videoRef.paused
  /\ isRemoteOp
  /\ guardTimeouts # <<>>
  /\ conns[dataConnRef].st = "open"
  /\ logs = <<>>
  /\ sent = <<>>

\* C20: the transition of a control channel to open resets the loop guard:
\* right after the open the guard is inactive, also when a remote command was
\* applied less than 300 ms earlier.
C20_OpenResetsGuard ==
  [][(\E c \in ConnIds : (\E captureOk \in BOOLEAN : InboundOpen(c, captureOk))
                           \/ OutboundOpen(c))
     => ~isRemoteOp']_vars

\* C17: one user action causes at most two control messages: every message in
\* flight is at most the second of its causal chain, an event queued on the
\* Host's <video> by a remote apply stems from a first message, and a Client
\* sends first messages only (on a button press), never one caused by a
\* message it received; so no chain of commands goes on between the peers.
C17_FiniteBounce ==
  /\ \A i \in 1..Len(wireIn) : wireIn[i].hops <= 2
  /\ \A i \in 1..Len(wireOut) : wireOut[i].hops <= 2
  /\ \A i \in 1..Len(playerEvents) : playerEvents[i].hops <= 1
  /\ ~isHostRef => /\ playerEvents = <<>>
                   /\ \A i \in 1..Len(wireOut) : wireOut[i].hops = 1

\* A Host has just sent back a command it had applied (the event of the apply
\* was dispatched after the guard window): the second message of a chain.
C17_Witness ==
  /\ isHostRef
  /\ ~isRemoteOp
  /\ sent # <<>>
  /\ wireOut # <<>>
  /\ wireOut[Len(wireOut)].hops = 2

====
